---- MODULE Spec2Model ----
(***************************************************************************)
(* A model of r3dupdate.py: the r3dfox full-install updater.  The script   *)
(* is one sequential run: platform check, installation checks, read of     *)
(* application.ini, fetch of the release feed, version comparison, asset   *)
(* selection, download to the temp directory, silent execution of the      *)
(* installer and removal of the downloaded file.                           *)
(*                                                                         *)
(* Python strings are sequences of code points, so that comparison         *)
(* (str <=), lower(), endswith(), "in" and the regular expression act on   *)
(* characters as they do in the script.                                    *)
(***************************************************************************)
EXTENDS Integers, Sequences, FiniteSets, TLC

VARIABLES
    app_ini,          \* application.ini of the installation, as found
    pc,               \* position of the run in the script
    exitCode,         \* exit status of the process, NoCode while it runs
    pending,          \* exit status raised inside the try of step 5
    arch,             \* "win32" or "win64"
    current_version,  \* str or None
    data,             \* the decoded feed response
    latest_tag,       \* data['tag_name']
    installer_url,    \* str or None
    installer_name,   \* str or None
    installer_path,   \* str or None
    fs,               \* files of the temp directory: set of <<path, state>>
    result,           \* return code of the installer, NoCode before it ran
    out,              \* what the run printed, in order
    requests,         \* URLs the run requested, in order
    spawned           \* command lines the run executed, in order

vars == <<app_ini, pc, exitCode, pending, arch, current_version, data, latest_tag,
          installer_url, installer_name, installer_path, fs, result, out,
          requests, spawned>>

\* Longest asset list of a feed response the model draws.
MaxAssets == 2

\* Python's None for a name that holds a str or None: a value that is no
\* string (no code point is negative).
None == <<-1>>

\* bool(x) of a str or None
Truthy(x) == x # None /\ x # <<>>

---------------------------------------------------------------------------
\* Characters

CH_DOT == 46

\* "v"
S_v == <<118>>

IsDigit(c) == c >= 48 /\ c <= 57

\* "Version="
S_VersionEq == <<86, 101, 114, 115, 105, 111, 110, 61>>
\* ".exe"
S_exe == <<46, 101, 120, 101>>
\* "r3dfox-win32-installer.exe"
S_win32 == <<114, 51, 100, 102, 111, 120, 45, 119, 105, 110, 51, 50, 45, 105,
             110, 115, 116, 97, 108, 108, 101, 114, 46, 101, 120, 101>>
\* "r3dfox-win64-installer.exe"
S_win64 == <<114, 51, 100, 102, 111, 120, 45, 119, 105, 110, 54, 52, 45, 105,
             110, 115, 116, 97, 108, 108, 101, 114, 46, 101, 120, 101>>

LATEST_API == "https://api.github.com/repos/Eclipse-Community/r3dfox/releases/latest"

ASSET_PATTERNS == [win32 |-> S_win32, win64 |-> S_win64]

---------------------------------------------------------------------------
\* Python string operations

\* str.lower() on ASCII
LowerChar(c) == IF c >= 65 /\ c <= 90 THEN c + 32 ELSE c

Lower(s) == [i \in 1..Len(s) |-> LowerChar(s[i])]

\* s.startswith(p, i): p occurs in s at 1-based position i
OccursAt(p, s, i) ==
    /\ i >= 1
    /\ i + Len(p) - 1 <= Len(s)
    /\ \A k \in 1..Len(p) : s[i + k - 1] = p[k]

\* p in s
Contains(p, s) == \E i \in 1..(Len(s) + 1) : OccursAt(p, s, i)

\* s.endswith(p)
EndsWith(s, p) == Len(p) <= Len(s) /\ OccursAt(p, s, Len(s) - Len(p) + 1)

\* a < b on str: code point order at the first difference, a proper prefix
\* is smaller.
StrLT(a, b) ==
    \E i \in 1..(Len(b)) :
        /\ \A k \in 1..(i - 1) : k <= Len(a) /\ a[k] = b[k]
        /\ \/ i = Len(a) + 1
           \/ i <= Len(a) /\ a[i] < b[i]

\* a <= b on str
StrLE(a, b) == a = b \/ StrLT(a, b)

---------------------------------------------------------------------------
\* The regular expression  Version=(\d+(?:\.\d+)+)

\* End (exclusive) of the longest run of digits of s starting at i.
RECURSIVE DigitsEnd(_, _)
DigitsEnd(s, i) ==
    IF i <= Len(s) /\ IsDigit(s[i]) THEN DigitsEnd(s, i + 1) ELSE i

\* End (exclusive) of the longest run of groups \.\d+ of s starting at i.
RECURSIVE GroupsEnd(_, _)
GroupsEnd(s, i) ==
    IF i + 1 <= Len(s) /\ s[i] = CH_DOT /\ IsDigit(s[i + 1])
    THEN GroupsEnd(s, DigitsEnd(s, i + 1))
    ELSE i

\* Variant of MatchAt: the pattern is Version=(\d+(?:\.\d+)*), one component
\* is enough.
MatchAt_single(s, i) ==
    IF ~OccursAt(S_VersionEq, s, i) THEN None
    ELSE LET b == i + Len(S_VersionEq)
             d == DigitsEnd(s, b)
             g == GroupsEnd(s, d)
         IN  IF d > b THEN SubSeq(s, b, g - 1) ELSE None

\* The match of the pattern anchored at position i of s: group 1, or None.
MatchAt(s, i) ==
    IF ~OccursAt(S_VersionEq, s, i) THEN None
    ELSE LET b == i + Len(S_VersionEq)
             d == DigitsEnd(s, b)
             g == GroupsEnd(s, d)
         IN  IF d > b /\ g > d THEN SubSeq(s, b, g - 1) ELSE None

\* re.search: the leftmost position with a match.
RECURSIVE SearchFrom(_, _)
SearchFrom(s, i) ==
    IF i > Len(s) THEN None
    ELSE IF MatchAt(s, i) # None THEN MatchAt(s, i)
    ELSE SearchFrom(s, i + 1)

re_search_version(content) == SearchFrom(content, 1)

---------------------------------------------------------------------------
\* Inputs of a run: the host, the installation, the feed

\* Decimal digits of a natural number.
RECURSIVE Decimal(_)
Decimal(n) == IF n < 10 THEN <<48 + n>> ELSE Decimal(n \div 10) \o <<48 + (n % 10)>>

\* The dotted-integer string of a sequence of components: <<9, 0>> is "9.0".
RECURSIVE Dotted(_)
Dotted(cs) ==
    IF Len(cs) = 1 THEN Decimal(cs[1])
    ELSE Decimal(cs[1]) \o <<CH_DOT>> \o Dotted(Tail(cs))

\* Versions of the model, by components.
VersionParts == { <<9, 0>>, <<10, 0>>, <<9, 0, 0>> }

VersionStrings == { Dotted(cs) : cs \in VersionParts }

\* tag_name of the feed: a version, with or without a leading "v".
Tags == VersionStrings \cup { S_v \o v : v \in VersionStrings }

\* Texts of application.ini.
IniTexts ==
    { S_VersionEq \o Dotted(<<9, 0>>),
      S_VersionEq \o Dotted(<<9, 0, 0>>),
      \* "[App]\nVersion=10.0\nID=x"
      <<91, 65, 112, 112, 93, 10, 86, 101, 114, 115, 105, 111, 110, 61, 49,
        48, 46, 48, 10, 73, 68, 61, 120>>,
      \* "Version=9"
      <<86, 101, 114, 115, 105, 111, 110, 61, 57>>,
      \* "Name=r3dfox"
      <<78, 97, 109, 101, 61, 114, 51, 100, 102, 111, 120>> }

\* application.ini as the run finds it.
IniFiles ==
    { [exists |-> FALSE, readable |-> FALSE, text |-> <<>>],
      [exists |-> TRUE,  readable |-> FALSE, text |-> <<>>] } \cup
    { [exists |-> TRUE, readable |-> TRUE, text |-> t] : t \in IniTexts }

\* "u:" + name, the download URL of an asset in the model.
UrlOf(name) == <<117, 58>> \o name

\* Asset names of the model.
AssetNames ==
    { S_win64, S_win32,
      \* "R3dfox-Win64-Installer.EXE"
      <<82, 51, 100, 102, 111, 120, 45, 87, 105, 110, 54, 52, 45, 73, 110,
        115, 116, 97, 108, 108, 101, 114, 46, 69, 88, 69>>,
      \* "r3dfox-win64-installer.exe.sig"
      <<114, 51, 100, 102, 111, 120, 45, 119, 105, 110, 54, 52, 45, 105, 110,
        115, 116, 97, 108, 108, 101, 114, 46, 101, 120, 101, 46, 115, 105,
        103>> }

\* Assets of the model: every name with its URL, and one with an empty URL.
Assets ==
    { [name |-> n, browser_download_url |-> UrlOf(n)] : n \in AssetNames } \cup
    { [name |-> S_win32, browser_download_url |-> <<>>] }

AssetLists == UNION { [1..n -> Assets] : n \in 0..MaxAssets }

\* The decoded feed response; has_assets is FALSE when the 'assets' key is
\* missing.
Feeds ==
    { [tag_name |-> t, has_assets |-> TRUE, assets |-> l] :
          t \in Tags, l \in AssetLists } \cup
    { [tag_name |-> t, has_assets |-> FALSE, assets |-> <<>>] : t \in Tags }

NoData == [tag_name |-> None, has_assets |-> FALSE, assets |-> <<>>]

\* Exceptions of the fetch that line 94 catches, and one it does not.
FetchCaught == {"URLError", "HTTPError", "JSONDecodeError", "KeyError"}
FetchUncaught == {"UnicodeDecodeError"}

\* Return codes of the installer in the model.
ReturnCodes == {0, 1, 2}

\* No exit status / return code yet.
NoCode == 0 - 1

\* tempfile.gettempdir(), "T:" in the model, and the path separator.
S_tempdir == <<84, 58>>
CH_SEP == 92

\* os.path.join(temp_dir, name)
PathJoin(dir, name) == dir \o <<CH_SEP>> \o name

---------------------------------------------------------------------------
\* Output and exit

Msg(m, a) == [msg |-> m, arg |-> a]

\* sys.exit(code), and the interpreter's exit after an uncaught exception
Exit(code) == pc' = "done" /\ exitCode' = code

Init ==
    /\ app_ini \in IniFiles
    /\ pc = "platform"
    /\ exitCode = NoCode
    /\ pending = NoCode
    /\ arch = "unset"
    /\ current_version = None
    /\ data = NoData
    /\ latest_tag = None
    /\ installer_url = None
    /\ installer_name = None
    /\ installer_path = None
    /\ fs = {}
    /\ result = NoCode
    /\ out = <<>>
    /\ requests = <<>>
    /\ spawned = <<>>

---------------------------------------------------------------------------
\* 1. Sanity checks

\* lines 40-47
CheckPlatform ==
    /\ pc = "platform"
    /\ \E system \in {"Windows", "Linux"}, maxsize64 \in BOOLEAN,
          wow64 \in {"", "AMD64"} :
        IF system # "Windows"
        THEN /\ out' = Append(out, Msg("This script only runs on Windows.", <<>>))
             /\ Exit(1)
             /\ UNCHANGED arch
        ELSE LET is_64bit == maxsize64 \/ wow64 # ""
             IN  /\ arch' = IF is_64bit THEN "win64" ELSE "win32"
                 /\ out' = Append(out, Msg("Detected architecture", <<>>))
                 /\ pc' = "install_dir"
                 /\ UNCHANGED exitCode
    /\ UNCHANGED <<app_ini, pending, current_version, data, latest_tag, installer_url,
                   installer_name, installer_path, fs, result, requests,
                   spawned>>

\* Variant of CheckInstallation: the messages are printed, the run goes on.
CheckInstallation_noexit ==
    /\ pc = "install_dir"
    /\ \E dir_exists \in BOOLEAN, exe_exists \in BOOLEAN :
        IF ~dir_exists
        THEN out' = Append(out, Msg("No r3dfox installation found", <<>>))
        ELSE IF ~exe_exists
        THEN out' = Append(out, Msg("firefox.exe not found", <<>>))
        ELSE UNCHANGED out
    /\ pc' = "current_version"
    /\ UNCHANGED <<app_ini, exitCode, pending, arch, current_version, data,
                   latest_tag, installer_url, installer_name, installer_path,
                   fs, result, requests, spawned>>

\* lines 50-56
CheckInstallation ==
    /\ pc = "install_dir"
    /\ \E dir_exists \in BOOLEAN, exe_exists \in BOOLEAN :
        IF ~dir_exists
        THEN /\ out' = Append(out, Msg("No r3dfox installation found", <<>>))
             /\ Exit(1)
        ELSE IF ~exe_exists
        THEN /\ out' = Append(out, Msg("firefox.exe not found", <<>>))
             /\ Exit(1)
        ELSE /\ pc' = "current_version"
             /\ UNCHANGED <<out, exitCode>>
    /\ UNCHANGED <<app_ini, pending, arch, current_version, data, latest_tag,
                   installer_url, installer_name, installer_path, fs, result,
                   requests, spawned>>

---------------------------------------------------------------------------
\* 2. Current version from application.ini

\* What get_current_version prints and returns for an application.ini.
get_current_version(ini) ==
    IF ~ini.exists
    THEN [printed |-> <<Msg("application.ini not found.", <<>>)>>, value |-> None]
    ELSE IF ~ini.readable
    THEN [printed |-> <<Msg("Error reading application.ini", <<>>)>>, value |-> None]
    ELSE LET match == re_search_version(ini.text)
         IN  IF match # None
             THEN [printed |-> <<>>, value |-> match]
             ELSE [printed |-> <<Msg("Could not parse version from application.ini.", <<>>)>>,
                   value |-> None]

\* lines 79-83
ReadCurrentVersion ==
    /\ pc = "current_version"
    /\ LET r == get_current_version(app_ini)
       IN  /\ current_version' = r.value
           /\ out' = out \o r.printed \o
                     IF Truthy(r.value)
                     THEN <<Msg("Current version", r.value)>>
                     ELSE <<Msg("Warning: Could not detect current version. Proceeding anyway.", <<>>)>>
    /\ pc' = "fetch"
    /\ UNCHANGED <<app_ini, exitCode, pending, arch, data, latest_tag, installer_url,
                   installer_name, installer_path, fs, result, requests,
                   spawned>>

---------------------------------------------------------------------------
\* 3. Latest release from the feed, and the comparison

Request(kind, url) == [kind |-> kind, url |-> url]

\* lines 88-96
FetchLatest ==
    /\ pc = "fetch"
    /\ requests' = Append(requests, Request("feed", LATEST_API))
    /\ \/ \E e \in FetchCaught :
            /\ out' = out \o <<Msg("Fetching latest r3dfox release info...", <<>>),
                               Msg("Error fetching release info", <<>>)>>
            /\ Exit(1)
            /\ UNCHANGED <<data, latest_tag>>
       \/ \E e \in FetchUncaught :
            /\ out' = out \o <<Msg("Fetching latest r3dfox release info...", <<>>),
                               Msg("Traceback", <<>>)>>
            /\ Exit(1)
            /\ UNCHANGED <<data, latest_tag>>
       \/ \E feed \in Feeds :
            /\ data' = feed
            /\ latest_tag' = feed.tag_name
            /\ out' = out \o <<Msg("Fetching latest r3dfox release info...", <<>>),
                               Msg("Latest version", feed.tag_name)>>
            /\ pc' = "compare"
            /\ UNCHANGED exitCode
    /\ UNCHANGED <<app_ini, pending, arch, current_version, installer_url,
                   installer_name, installer_path, fs, result, spawned>>

\* Variant of UpToDate: the comparison is strict (latest_tag < current_version).
UpToDate_strict(current, latest) == Truthy(current) /\ StrLT(latest, current)

\* line 99: current_version and latest_tag <= current_version
UpToDate(current, latest) == Truthy(current) /\ StrLE(latest, current)

\* lines 99-101
CompareVersions ==
    /\ pc = "compare"
    /\ IF UpToDate(current_version, latest_tag)
       THEN /\ out' = Append(out, Msg("No update needed.", latest_tag))
            /\ Exit(0)
       ELSE /\ pc' = "find_asset"
            /\ UNCHANGED <<out, exitCode>>
    /\ UNCHANGED <<app_ini, pending, arch, current_version, data, latest_tag,
                   installer_url, installer_name, installer_path, fs, result,
                   requests, spawned>>

---------------------------------------------------------------------------
\* Asset selection

\* line 107-109: pattern in name and name.endswith('.exe'), both lowered
Matches(asset_name, a) ==
    LET name == Lower(asset_name)
        pattern == Lower(ASSET_PATTERNS[a])
    IN  Contains(pattern, name) /\ EndsWith(name, S_exe)

\* lines 106-112: index of the asset the loop breaks at, from i on; 0 if the
\* loop runs to its end.
RECURSIVE FindFrom(_, _, _)
FindFrom(assets, a, i) ==
    IF i > Len(assets) THEN 0
    ELSE IF Matches(assets[i].name, a) THEN i
    ELSE FindFrom(assets, a, i + 1)

\* Variant of FindInstaller: the loop has no break, the last match is kept.
FindInstaller_last(assets, a) ==
    IF \A i \in 1..Len(assets) : ~Matches(assets[i].name, a) THEN 0
    ELSE CHOOSE i \in 1..Len(assets) :
             /\ Matches(assets[i].name, a)
             /\ \A k \in (i + 1)..Len(assets) : ~Matches(assets[k].name, a)

FindInstaller(assets, a) == FindFrom(assets, a, 1)

\* Variant of AssetListing: only the first asset is listed.
AssetListing_first(assets) ==
    IF Len(assets) = 0 THEN <<>> ELSE <<Msg("  - ", assets[1].name)>>

\* lines 116-118: one line of output per asset
AssetListing(assets) == [i \in 1..Len(assets) |-> Msg("  - ", assets[i].name)]

\* lines 104-121
SelectAsset ==
    /\ pc = "find_asset"
    /\ IF ~data.has_assets
       THEN \* data['assets'] raises KeyError, which nothing catches
            /\ out' = Append(out, Msg("Traceback", <<>>))
            /\ Exit(1)
            /\ UNCHANGED <<installer_url, installer_name>>
       ELSE LET i == FindInstaller(data.assets, arch)
                url == IF i = 0 THEN None ELSE data.assets[i].browser_download_url
                name == IF i = 0 THEN None ELSE data.assets[i].name
            IN  /\ installer_url' = url
                /\ installer_name' = name
                /\ IF ~Truthy(url)
                   THEN /\ out' = out \o <<Msg("No matching installer .exe found", <<>>),
                                           Msg("Available assets:", <<>>)>>
                                      \o AssetListing(data.assets)
                        /\ Exit(1)
                   ELSE /\ out' = Append(out, Msg("Found installer", name))
                        /\ pc' = "download"
                        /\ UNCHANGED exitCode
    /\ UNCHANGED <<app_ini, pending, arch, current_version, data, latest_tag,
                   installer_path, fs, result, requests, spawned>>

---------------------------------------------------------------------------
\* 4. Download of the installer to the temp directory

\* The file at path, written anew in the given state.
WriteFile(files, path, state) ==
    { f \in files : f[1] # path } \cup { <<path, state>> }

\* os.path.exists(path)
Exists(files, path) == \E f \in files : f[1] = path

\* lines 126-130: the request for the asset
DownloadRequest ==
    /\ pc = "download"
    /\ installer_path' = PathJoin(S_tempdir, installer_name)
    /\ requests' = Append(requests, Request("asset", installer_url))
    /\ \/ \* urlopen answers
          /\ out' = Append(out, Msg("Downloading installer to", installer_path'))
          /\ pc' = "open_file"
          /\ UNCHANGED exitCode
       \/ \* urlopen raises URLError
          /\ out' = out \o <<Msg("Downloading installer to", installer_path'),
                             Msg("Download failed", <<>>)>>
          /\ Exit(1)
       \/ \* urlopen raises an exception that is no URLError
          /\ out' = out \o <<Msg("Downloading installer to", installer_path'),
                             Msg("Traceback", <<>>)>>
          /\ Exit(1)
    /\ UNCHANGED <<app_ini, pending, arch, current_version, data, latest_tag,
                   installer_url, installer_name, fs, result, spawned>>

\* line 131: open(installer_path, 'wb')
DownloadOpenFile ==
    /\ pc = "open_file"
    /\ \/ \* the file is created, or truncated
          /\ fs' = WriteFile(fs, installer_path, "partial")
          /\ pc' = "copy"
          /\ UNCHANGED <<out, exitCode>>
       \/ \* open raises OSError
          /\ out' = Append(out, Msg("Traceback", <<>>))
          /\ Exit(1)
          /\ UNCHANGED fs
    /\ UNCHANGED <<app_ini, pending, arch, current_version, data, latest_tag,
                   installer_url, installer_name, installer_path, result,
                   requests, spawned>>

\* lines 132-136: shutil.copyfileobj(response, f)
DownloadCopy ==
    /\ pc = "copy"
    /\ \/ \* every byte is written
          /\ fs' = WriteFile(fs, installer_path, "complete")
          /\ out' = Append(out, Msg("Download completed.", <<>>))
          /\ pc' = "execute"
          /\ UNCHANGED exitCode
       \/ \* the copy raises URLError
          /\ out' = Append(out, Msg("Download failed", <<>>))
          /\ Exit(1)
          /\ UNCHANGED fs
       \/ \* the copy raises an exception that is no URLError
          /\ out' = Append(out, Msg("Traceback", <<>>))
          /\ Exit(1)
          /\ UNCHANGED fs
    /\ UNCHANGED <<app_ini, pending, arch, current_version, data, latest_tag,
                   installer_url, installer_name, installer_path, result,
                   requests, spawned>>

---------------------------------------------------------------------------
\* 5. Silent execution of the installer

\* line 145
SilentFlag == <<47, 83>>

\* Variant of StatusOf: the return code is not looked at.
StatusOf_ignored(returncode) == NoCode

\* Exit status of the try block for the installer's return code: NoCode when
\* the block falls through (lines 147-151).
StatusOf(returncode) == IF returncode = 0 THEN NoCode ELSE 1

\* lines 141-154: the try block and its except clause
ExecuteInstaller ==
    /\ pc = "execute"
    /\ spawned' = Append(spawned, <<installer_path, SilentFlag>>)
    /\ \/ \E returncode \in ReturnCodes :
            /\ result' = returncode
            /\ pending' = StatusOf(returncode)
            /\ out' = out \o <<Msg("Executing installer silently...", <<>>),
                               IF returncode = 0
                               THEN Msg("Installation completed successfully.", latest_tag)
                               ELSE Msg("Installer returned code", <<>>)>>
       \/ \* subprocess.run raises
          /\ pending' = 1
          /\ out' = out \o <<Msg("Executing installer silently...", <<>>),
                             Msg("Error executing installer", <<>>)>>
          /\ UNCHANGED result
    /\ pc' = "finally"
    /\ UNCHANGED <<app_ini, exitCode, arch, current_version, data, latest_tag,
                   installer_url, installer_name, installer_path, fs,
                   requests>>

\* Variant of Cleanup: nothing is removed.
Cleanup_nothing(files, path) == files

\* lines 157-158: the files left once the finally clause has run
Cleanup(files, path) ==
    IF Exists(files, path) THEN { f \in files : f[1] # path } ELSE files

\* lines 155-158, and the end of the script
Finally ==
    /\ pc = "finally"
    /\ fs' = Cleanup(fs, installer_path)
    /\ Exit(IF pending = NoCode THEN 0 ELSE pending)
    /\ UNCHANGED <<app_ini, pending, arch, current_version, data, latest_tag,
                   installer_url, installer_name, installer_path, result, out,
                   requests, spawned>>

---------------------------------------------------------------------------

Next ==
    \/ CheckPlatform
    \/ CheckInstallation
    \/ ReadCurrentVersion
    \/ FetchLatest
    \/ CompareVersions
    \/ SelectAsset
    \/ DownloadRequest
    \/ DownloadOpenFile
    \/ DownloadCopy
    \/ ExecuteInstaller
    \/ Finally

Spec == Init /\ [][Next]_vars

---------------------------------------------------------------------------
\* Observations of a run

Terminated == pc = "done"

\* The run printed message m.
Printed(m) == \E j \in 1..Len(out) : out[j].msg = m

\* The feed answered and the comparison of lines 99-101 has been made.
DecisionTaken == latest_tag # None /\ pc # "compare"

\* The run took the exit of line 101.
StoppedUpToDate == Printed("No update needed.")

\* The run requested an asset.
DownloadRequested == \E j \in 1..Len(requests) : requests[j].kind = "asset"

\* The run executed an installer.
InstallerExecuted == Len(spawned) > 0

---------------------------------------------------------------------------
\* Dotted-integer versions, by their numbers

\* s is digits and single dots between them
IsDottedInt(s) ==
    /\ Len(s) > 0
    /\ \A k \in 1..Len(s) : IsDigit(s[k]) \/ s[k] = CH_DOT
    /\ IsDigit(s[1]) /\ IsDigit(s[Len(s)])
    /\ \A k \in 1..(Len(s) - 1) : ~(s[k] = CH_DOT /\ s[k + 1] = CH_DOT)

\* int(s) of a string of digits
RECURSIVE ToInt(_)
ToInt(s) ==
    IF Len(s) = 0 THEN 0
    ELSE 10 * ToInt(SubSeq(s, 1, Len(s) - 1)) + (s[Len(s)] - 48)

\* [int(x) for x in s.split('.')]
RECURSIVE Components(_)
Components(s) ==
    IF \A k \in 1..Len(s) : s[k] # CH_DOT THEN <<ToInt(s)>>
    ELSE LET d == CHOOSE k \in 1..Len(s) :
                      s[k] = CH_DOT /\ \A j \in 1..(k - 1) : s[j] # CH_DOT
         IN  <<ToInt(SubSeq(s, 1, d - 1))>> \o Components(SubSeq(s, d + 1, Len(s)))

\* Component k of a version, zero beyond its end
Part(cs, k) == IF k <= Len(cs) THEN cs[k] ELSE 0

\* a < b by components, the shorter padded with zeros
NumLT(a, b) ==
    LET ca == Components(a)
        cb == Components(b)
        n  == IF Len(ca) > Len(cb) THEN Len(ca) ELSE Len(cb)
    IN  \E k \in 1..n :
            /\ \A j \in 1..(k - 1) : Part(ca, j) = Part(cb, j)
            /\ Part(ca, k) < Part(cb, k)

NumGE(a, b) == ~NumLT(a, b)

---------------------------------------------------------------------------
\* The update decision

\* C1: with an installed version A and a feed tag B that are dotted-integer
\* strings, the run stops as up to date exactly when A >= B by numeric
\* components (so "9.0" installed and "10.0" latest proceeds).
C1_NumericOrder ==
    (DecisionTaken /\ Truthy(current_version) /\ IsDottedInt(latest_tag))
        => (StoppedUpToDate <=> NumGE(current_version, latest_tag))

\* C2: when the installed version was read and the feed's tag equals it
\* exactly, the run makes no asset request, executes no installer, has the
\* comparison as its only remaining step and ends with exit code 0.
C2_EqualTagStops ==
    (Truthy(current_version) /\ latest_tag = current_version)
        => /\ ~DownloadRequested
           /\ ~InstallerExecuted
           /\ pc \in {"compare", "done"}
           /\ Terminated => exitCode = 0

C2_Witness ==
    /\ Terminated
    /\ Truthy(current_version)
    /\ latest_tag = current_version
    /\ StoppedUpToDate
    /\ exitCode = 0

\* C9: the decision is the same for the feed tag "v"+T as for the tag T; with
\* I installed and the tag "v"+I the run stops as up to date with exit code
\* 0 and requests no asset.
C9_LeadingVIgnored ==
    (DecisionTaken /\ Truthy(current_version)
        /\ Len(latest_tag) > 1 /\ latest_tag[1] = S_v[1]
        /\ IsDottedInt(Tail(latest_tag)))
        => /\ StoppedUpToDate <=> UpToDate(current_version, Tail(latest_tag))
           /\ Tail(latest_tag) = current_version
                => StoppedUpToDate /\ ~DownloadRequested
                   /\ (Terminated => exitCode = 0)

---------------------------------------------------------------------------
\* The downloaded file

C4_NoFileAfterFailedDownload ==
    (Terminated /\ installer_path # None) => ~Exists(fs, installer_path)

---------------------------------------------------------------------------
\* Asset selection

\* No asset of the feed response matches the pattern of the architecture.
NoAssetMatches ==
    /\ latest_tag # None
    /\ data.has_assets
    /\ \A i \in 1..Len(data.assets) : ~Matches(data.assets[i].name, arch)

\* C5: when the feed answered and none of its assets (there may be none)
\* matches, no asset is requested and no installer executed, and a run that
\* was not stopped as up to date ends with exit code 1 after printing the
\* name of every asset of the response.
C5_NoMatchFails ==
    NoAssetMatches
        => /\ ~DownloadRequested
           /\ ~InstallerExecuted
           /\ (Terminated /\ ~StoppedUpToDate)
                => /\ exitCode = 1
                   /\ Printed("No matching installer .exe found")
                   /\ \A i \in 1..Len(data.assets) :
                          \E j \in 1..Len(out) :
                              out[j] = Msg("  - ", data.assets[i].name)

\* A terminated run that listed two assets of which none matched.
C5_Witness ==
    /\ Terminated
    /\ NoAssetMatches
    /\ ~StoppedUpToDate
    /\ Len(data.assets) = 2
    /\ data.assets[1].name # data.assets[2].name
    /\ exitCode = 1

\* The run went on from the selection with an asset.
AssetSelected == Printed("Found installer")

\* C8: a selected asset is the first of the feed's list that matches the
\* pattern of the detected architecture; every asset request is for its URL
\* and every command executed is its file in the temp directory.
C8_FirstMatchSelected ==
    /\ (DownloadRequested \/ InstallerExecuted) => AssetSelected
    /\ AssetSelected =>
         \E i \in 1..Len(data.assets) :
            /\ Matches(data.assets[i].name, arch)
            /\ \A k \in 1..(i - 1) : ~Matches(data.assets[k].name, arch)
            /\ installer_name = data.assets[i].name
            /\ installer_url = data.assets[i].browser_download_url
            /\ \A j \in 1..Len(requests) :
                   requests[j].kind = "asset"
                       => requests[j].url = data.assets[i].browser_download_url
            /\ \A j \in 1..Len(spawned) :
                   spawned[j][1] = PathJoin(S_tempdir, data.assets[i].name)

\* The installer ran, and the feed listed two matching assets.
C8_Witness ==
    /\ InstallerExecuted
    /\ Len(data.assets) = 2
    /\ Matches(data.assets[1].name, arch)
    /\ Matches(data.assets[2].name, arch)
    /\ data.assets[1].name # data.assets[2].name
    /\ installer_name = data.assets[1].name

---------------------------------------------------------------------------
\* Exit codes

---------------------------------------------------------------------------
\* The installed version

\* text holds "Version=" followed by a dotted-integer string of two or more
\* components
Recognizable(text) ==
    \E i \in 1..Len(text), j \in 1..Len(text) :
        /\ OccursAt(S_VersionEq, text, i)
        /\ j >= i + Len(S_VersionEq)
        /\ IsDottedInt(SubSeq(text, i + Len(S_VersionEq), j))
        /\ \E k \in (i + Len(S_VersionEq))..j : text[k] = CH_DOT

\* application.ini is absent, unreadable or without a Version= line
VersionUnreadable ==
    ~app_ini.exists \/ ~app_ini.readable \/ ~Recognizable(app_ini.text)

\* The run is past the read of application.ini.
VersionRead == pc = "fetch" \/ Len(requests) > 0

\* The run reached the asset selection.
ReachedSelection ==
    \/ pc \in {"find_asset", "download", "open_file", "copy", "execute", "finally"}
    \/ Printed("Found installer")
    \/ Printed("No matching installer .exe found")
    \/ (Terminated /\ ~data.has_assets /\ Printed("Traceback"))

\* C7: with application.ini absent, unreadable or without a recognizable
\* Version= line the reader yields None and the run goes on; whatever tag the
\* feed then gives, the run is not stopped as up to date and goes on to the
\* asset selection.
C7_UnknownVersionProceeds ==
    (VersionUnreadable /\ VersionRead)
        => /\ current_version = None
           /\ Printed("Warning: Could not detect current version. Proceeding anyway.")
           /\ ~StoppedUpToDate
           /\ DecisionTaken => ReachedSelection

\* A run on an application.ini with a one-component Version= line that
\* went on to request an asset.
C7_Witness ==
    /\ app_ini.exists /\ app_ini.readable
    /\ Contains(S_VersionEq, app_ini.text)
    /\ VersionUnreadable
    /\ DownloadRequested

---------------------------------------------------------------------------
\* Order of the stages

\* Message a is printed, and message b after it.
PrintedInOrder(a, b) ==
    \E i \in 1..Len(out), j \in 1..Len(out) :
        i < j /\ out[i].msg = a /\ out[j].msg = b

FailureMessages ==
    { "This script only runs on Windows.", "No r3dfox installation found",
      "firefox.exe not found", "Error fetching release info",
      "No matching installer .exe found", "Download failed", "Traceback" }

\* C10 (state part): an installer is executed at most once, after the
\* platform and installation checks passed, the feed answered, the run was
\* not stopped, an asset was selected and its download completed, in this
\* order; an asset is requested at most once and only after the decision to
\* proceed and the selection.
StagesInOrder ==
    /\ Len(spawned) <= 1
    /\ Cardinality({ j \in 1..Len(requests) : requests[j].kind = "asset" }) <= 1
    /\ DownloadRequested =>
         /\ DecisionTaken /\ ~StoppedUpToDate
         /\ PrintedInOrder("Latest version", "Found installer")
         /\ PrintedInOrder("Found installer", "Downloading installer to")
         /\ requests[1].kind = "feed"
    /\ InstallerExecuted =>
         /\ DownloadRequested
         /\ PrintedInOrder("Detected architecture", "Latest version")
         /\ PrintedInOrder("Downloading installer to", "Download completed.")
         /\ PrintedInOrder("Download completed.", "Executing installer silently...")
         /\ \A j \in 1..Len(out) :
                out[j].msg = "Executing installer silently..."
                    => \A i \in 1..(j - 1) : out[i].msg \notin FailureMessages
         /\ pc = "finally" => <<installer_path, "complete">> \in fs

\* C10: the stages occur in order (StagesInOrder), and no step changes
\* anything once the run has exited.
C10_PipelineOrder ==
    /\ []StagesInOrder
    /\ [][pc = "done" => UNCHANGED vars]_vars

\* The installer has been started and its file is complete in the temp
\* directory.
C10_Witness ==
    /\ pc = "finally"
    /\ Len(spawned) = 1
    /\ <<installer_path, "complete">> \in fs

====
